---- MODULE Spec2Model ----
(***************************************************************************)
(* Model of gauss_filter.cu: the batch scheduler that applies a Gaussian   *)
(* filter to every entry of an input directory with one thread per image,  *)
(* in batches of hardware_concurrency() threads.                           *)
(*                                                                         *)
(* Strings are sequences of one-character strings.  size_t values are kept *)
(* modulo SizeMod, so that std::string::npos + 1 wraps to 0 as in the code. *)
(***************************************************************************)
EXTENDS Integers, Sequences, FiniteSets, Bags, TLC

VARIABLES
    pc,          \* position of the main thread in processImagesInDirectory / processBatch
    outState,    \* what the output path is on disk: "absent", "dir" or "file"
    outParent,   \* whether the parent directory of the output path exists
    outEntries,  \* immediate entries of the output directory: records [name, kind], kind
                 \* is "file", "dir" or "link" (a symbolic link, with the kind of its target)
    iterTodo,    \* entries the directory_iterator of cleanupOutputDirectory has still to visit
    inState,     \* what the input path is on disk: "dir" or "absent"
    inTree,      \* entries below the input directory: records [path, kind]
    imagePaths,  \* std::vector<std::string> imagePaths
    numThreads,  \* unsigned int numThreads
    i,           \* loop index of the batching loop (0-based, as in the code)
    batch,       \* std::vector<std::string> batch
    bpos,        \* number of entries of the batch processBatch has looked at
    workers,     \* std::vector<std::thread> workers of the running processBatch
    jpos,        \* number of workers processBatch has joined
    threads,     \* every thread started so far: [path, st, at]; st is "spawned", "transform",
                 \* "saved", "returned" or "died", at is the loop index i of the processBatch call
    reports,     \* bag of the lines printed about image paths: [path, kind]
    fatal,       \* where the main thread was when a filesystem_error was thrown: "none",
                 \* "start", "cleanup", "discover" or "dispatch"
    removed,     \* number of files fs::remove has deleted in cleanupOutputDirectory
    batches,     \* the batches processBatch was called with, in call order
    exitStatus,  \* how the process ended: "running", "0" or "SIGABRT"
    run,         \* which execution of the program this is: 1 or 2
    created,     \* files created below the input directory during the run: [path, at, missed];
                 \* at is the position of the main thread then, missed whether the open
                 \* recursive_directory_iterator does not report the file
    pIn,         \* path resolver: first input path
    pIn2,        \* path resolver: second input path
    pDir,        \* path resolver: the output directory parseInputOutputDirs returned
    pOut,        \* path resolver: output path computed for pIn
    pOut2,       \* path resolver: output path computed for pIn2
    argInput,    \* the --input argument: [given, value]
    argOutput,   \* the --output argument: [given, value]
    inputDir,    \* the input directory parseInputOutputDirs returned
    ppc          \* path resolver: position

vars == <<pc, outState, outParent, outEntries, iterTodo, inState, inTree, imagePaths, numThreads,
          i, batch, bpos, workers, jpos, threads, reports, fatal, removed, batches, exitStatus, run,
          created, pIn, pIn2, pDir, pOut, pOut2, argInput, argOutput, inputDir, ppc>>

runVars == <<pc, outState, outParent, outEntries, iterTodo, inState, inTree, imagePaths, numThreads,
             i, batch, bpos, workers, jpos, threads, reports, fatal, removed, batches,
             exitStatus, run, created>>

\* the state of the process as its caller sees it
procVars == <<exitStatus, run>>

pathVars == <<pIn, pIn2, pDir, pOut, pOut2, argInput, argOutput, inputDir, ppc>>

----------------------------------------------------------------------------
(* Bounds *)

\* most entries below the input directory
MaxPaths == 3
\* largest value hardware_concurrency() returns in the model (0 is included)
MaxThreads == 2
\* most stale regular files in the output directory before the run
MaxStale == 3
\* longest input path handed to the path resolver
MaxPathLen == 4
\* longest output directory string handed to the path resolver
MaxDirLen == 2

----------------------------------------------------------------------------
(* std::string helpers *)

\* size_t arithmetic is modular; the width is narrowed, strings are far shorter
SizeMod == 2 ^ 30

\* std::string::npos, (size_t) -1
Npos == SizeMod - 1

Min(a, b) == IF a < b THEN a ELSE b

\* s.find_last_of(chars): 0-based index of the last character of s that is in
\* chars, npos when there is none
FindLastOf(s, chars) ==
    LET hits == {k \in 1..Len(s) : s[k] \in chars}
    IN IF hits = {} THEN Npos
       ELSE (CHOOSE k \in hits : \A h \in hits : h <= k) - 1

\* s.substr(pos, count) for pos <= s.size(): the characters [pos, min(pos+count, size))
Substr(s, pos, count) ==
    SubSeq(s, pos + 1, pos + Min(count, Len(s) - pos))

\* the characters of "/\\" given to find_last_of
Separators == {"/", "\\"}

\* the character of "." given to find_last_of
Dot == {"."}

\* "_gauss_filtered.pgm"
Suffix == <<"_", "g", "a", "u", "s", "s", "_", "f", "i", "l", "t", "e", "r", "e", "d",
            ".", "p", "g", "m">>

\* the lambda of processBatch: the output file of an image path
OutputFile(outputDir, imagePath) ==
    LET joined == outputDir \o <<"/">> \o
                  Substr(imagePath, (FindLastOf(imagePath, Separators) + 1) % SizeMod, Npos)
    IN Substr(joined, 0, FindLastOf(joined, Dot)) \o Suffix

----------------------------------------------------------------------------
(* The file system the run works on *)

\* the --output argument
OutputDir == <<"o">>

\* the entries that can exist below the input directory "i"
FileAB == [path |-> <<"i", "/", "a", ".", "b">>, kind |-> "file"]

FileAC == [path |-> <<"i", "/", "a", ".", "c">>, kind |-> "file"]

FileCB == [path |-> <<"i", "/", "c", ".", "b">>, kind |-> "file"]

DirD == [path |-> <<"i", "/", "d">>, kind |-> "dir"]

FileDAB == [path |-> <<"i", "/", "d", "/", "a", ".", "b">>, kind |-> "file"]

InputUniverse == {FileAB, FileAC, FileCB, DirD, FileDAB}

\* a directory tree: a file inside d exists only if d does
InputTrees ==
    {T \in SUBSET InputUniverse :
        /\ Cardinality(T) <= MaxPaths
        /\ FileDAB \in T => DirD \in T}

StaleDigits == <<"1", "2", "3", "4", "5", "6", "7", "8", "9">>

\* a regular file left in the output directory by something before the run
StaleFile(k) == [name |-> OutputDir \o <<"/", "s", StaleDigits[k]>>, kind |-> "file", stale |-> TRUE]

\* a subdirectory of the output directory, with the files inside it
OutSubdir == [name |-> OutputDir \o <<"/", "k">>, kind |-> "dir", stale |-> TRUE,
              files |-> {OutputDir \o <<"/", "k", "/", "f">>}]

\* a symbolic link in the output directory to a regular file outside it
StaleLink == [name |-> OutputDir \o <<"/", "l">>, kind |-> "link", stale |-> TRUE, target |-> "file"]

\* a symbolic link in the output directory to its subdirectory
SubdirLink == [name |-> OutputDir \o <<"/", "m">>, kind |-> "link", stale |-> TRUE, target |-> "dir"]

\* the output file a worker saved
WrittenFile(name) == [name |-> name, kind |-> "file", stale |-> FALSE]

\* fs::exists(imagePath) && fs::is_regular_file(imagePath)
IsRegularFile(path) == \E e \in inTree : e.path = path /\ e.kind = "file"

----------------------------------------------------------------------------
(* processImagesInDirectory, main thread *)

\* mutant: the filesystem_error is swallowed and the run goes on
OnFsErrorIgnored(next) == next

\* an exception that leaves processImagesInDirectory is not caught by main
OnFsError(next) == "aborted"

\* mutant: the test of the entry is inverted
ShouldRemoveDirs(e) == e.kind = "dir"

\* mutant: every entry is removed, as fs::remove_all would
ShouldRemoveAll(e) == TRUE

\* entry.is_regular_file() in cleanupOutputDirectory: the status is taken
\* through symbolic links, so a link to a regular file is accepted too
ShouldRemove(e) == e.kind = "file" \/ (e.kind = "link" /\ e.target = "file")

\* mutant: the loop is left before the first entry
CleanupLoopDoneEarly(todo) == TRUE

\* the range-for of cleanupOutputDirectory ends when the iterator is exhausted
CleanupLoopDone(todo) == todo = {}

\* mutant: the test for the last image is missing
BatchFullSizeOnly(b, idx, n, nt) == Len(b) = nt

\* mutant: the batch is dispatched one entry too late
BatchFullOffByOne(b, idx, n, nt) == Len(b) = nt + 1 \/ idx = (n - 1 + SizeMod) % SizeMod

\* batch.size() == numThreads || i == imagePaths.size() - 1
BatchFull(b, idx, n, nt) == Len(b) = nt \/ idx = (n - 1 + SizeMod) % SizeMod

\* mutant: the thread is not waited for
JoinableAlways(st) == TRUE

\* mutant: join waits for something the thread never does
JoinableNever(st) == FALSE

\* worker.join() returns once the thread has finished
Joinable(st) == st = "returned"

\* mutant: the catch-all handler is missing
CaughtByStdOnly(exc) == IF exc = "std" THEN "error" ELSE "none"

\* the handlers of applyGaussFilter: the report printed for an exception, "none"
\* when no handler matches
CaughtBy(exc) == IF exc = "std" THEN "error" ELSE "unknown"

\* what the transform can throw: a std::exception, or something else (npp::Exception)
Exceptions == {"std", "other"}

InitRun ==
    /\ pc = "main"
    /\ outState \in {"absent", "dir", "file"}
    /\ outParent \in (IF outState = "absent" THEN BOOLEAN ELSE {TRUE})
    /\ outEntries \in (IF outState = "dir"
                       THEN {{StaleFile(k) : k \in 1..n} \cup lnk \cup sub :
                                n \in 0..MaxStale, lnk \in {{}, {StaleLink}},
                                sub \in {{}, {OutSubdir, SubdirLink}}}
                       ELSE {{}})
    /\ iterTodo = {}
    /\ inState \in {"dir", "absent"}
    /\ inTree \in (IF inState = "dir" THEN InputTrees ELSE {{}})
    /\ imagePaths = <<>>
    /\ numThreads = 0
    /\ i = 0
    /\ batch = <<>>
    /\ bpos = 0
    /\ workers = <<>>
    /\ jpos = 0
    /\ threads = <<>>
    /\ reports = EmptyBag
    /\ fatal = "none"
    /\ removed = 0
    /\ batches = <<>>
    /\ exitStatus = "running"
    /\ run = 1
    /\ created = {}

\* a command-line argument that is absent
NotGiven == [given |-> FALSE, value |-> <<>>]

\* a command-line argument --name=value
Given(value) == [given |-> TRUE, value |-> value]

PathIdle ==
    /\ pIn = <<>>
    /\ pIn2 = <<>>
    /\ pDir = <<>>
    /\ pOut = <<>>
    /\ pOut2 = <<>>
    /\ argInput = NotGiven
    /\ argOutput = NotGiven
    /\ inputDir = <<>>
    /\ ppc = "idle"

\* a filesystem_error thrown in the main thread
Throw(next) ==
    /\ fatal' = pc
    /\ pc' = OnFsError(next)

\* lines 171-172: the output path exists, cleanupOutputDirectory opens the iterator
EnterCleanup ==
    /\ pc = "start"
    /\ outState # "absent"
    /\ \E err \in BOOLEAN :
          IF err \/ outState = "file"
          THEN Throw("discover") /\ UNCHANGED iterTodo
          ELSE /\ iterTodo' = outEntries
               /\ pc' = "cleanup"
               /\ UNCHANGED fatal
    /\ UNCHANGED <<removed, outState, outParent, outEntries, inState, inTree, imagePaths, numThreads, i, batch,
                   bpos, workers, jpos, threads, reports>>

\* lines 173-174: fs::create_directory(outputDir)
CreateDirectory ==
    /\ pc = "start"
    /\ outState = "absent"
    /\ \E err \in BOOLEAN :
          IF err \/ ~outParent
          THEN Throw("discover") /\ UNCHANGED outState
          ELSE /\ outState' = "dir"
               /\ pc' = "discover"
               /\ UNCHANGED fatal
    /\ UNCHANGED <<removed, outParent, outEntries, iterTodo, inState, inTree, imagePaths, numThreads, i, batch,
                   bpos, workers, jpos, threads, reports>>

\* lines 111-118: one iteration of the loop of cleanupOutputDirectory; the
\* increment of the iterator, is_regular_file and fs::remove can each throw
CleanupStep ==
    /\ pc = "cleanup"
    /\ ~CleanupLoopDone(iterTodo)
    /\ \E e \in iterTodo, err \in BOOLEAN :
          /\ iterTodo' = iterTodo \ {e}
          /\ IF err
             THEN Throw("cleanup") /\ UNCHANGED <<outEntries, removed>>
             ELSE IF ShouldRemove(e)
                  THEN /\ outEntries' = outEntries \ {e}
                       /\ removed' = removed + 1
                       /\ UNCHANGED <<pc, fatal>>
                  ELSE UNCHANGED <<outEntries, removed, pc, fatal>>
    /\ UNCHANGED <<outState, outParent, inState, inTree, imagePaths, numThreads, i, batch,
                   bpos, workers, jpos, threads, reports>>

\* lines 111, 119: the increment past the last entry throws, or
\* cleanupOutputDirectory returns
CleanupEnd ==
    /\ pc = "cleanup"
    /\ CleanupLoopDone(iterTodo)
    /\ \E err \in BOOLEAN :
          IF err
          THEN Throw("discover")
          ELSE /\ pc' = "discover"
               /\ UNCHANGED fatal
    /\ UNCHANGED <<removed, outState, outParent, outEntries, iterTodo, inState, inTree, imagePaths,
                   numThreads, i, batch, bpos, workers, jpos, threads, reports>>

\* the entries the recursive_directory_iterator can yield next: depth first, the
\* entries of d right after d
NextEntries ==
    LET seen == {imagePaths[k] : k \in 1..Len(imagePaths)}
        missed == {c.path : c \in {d \in created : d.missed}}
        left == {e \in inTree : e.path \notin seen /\ e.path \notin missed}
    IN IF FileDAB \in left /\ DirD.path \in seen
       THEN {FileDAB}
       ELSE left \ {FileDAB}

\* mutant: the directory is walked lazily, while the batching loop runs
WalkingStill(p) == p \in {"discover", "loop"}

\* lines 178-181 come before line 188: the walk runs to its end before the batching loop
Walking(p) == p = "discover"

\* lines 178-181: one entry of the recursive walk is pushed
DiscoverStep ==
    /\ Walking(pc)
    /\ NextEntries # {}
    /\ \E e \in NextEntries, err \in BOOLEAN :
          IF err
          THEN Throw("discover") /\ UNCHANGED imagePaths
          ELSE /\ imagePaths' = Append(imagePaths, e.path)
               /\ UNCHANGED <<pc, fatal>>
    /\ UNCHANGED <<removed, outState, outParent, outEntries, iterTodo, inState, inTree, numThreads, i, batch,
                   bpos, workers, jpos, threads, reports>>

\* lines 178-185: no entry is left: opening a missing input directory throws, the
\* construction or the last increment of the iterator can throw, or the walk is
\* over and hardware_concurrency() is read
DiscoverEnd ==
    /\ pc = "discover"
    /\ NextEntries = {}
    /\ \E err \in (IF inState = "absent" THEN {TRUE} ELSE BOOLEAN) :
          IF err
          THEN Throw("loop") /\ UNCHANGED numThreads
          ELSE /\ numThreads' \in 0..MaxThreads
               /\ pc' = "loop"
               /\ UNCHANGED fatal
    /\ UNCHANGED <<removed, outState, outParent, outEntries, iterTodo, inState, inTree, imagePaths, i,
                   batch, bpos, workers, jpos, threads, reports>>

\* lines 188-194: one iteration of the batching loop, up to the call of processBatch
LoopStep ==
    /\ pc = "loop"
    /\ i < Len(imagePaths)
    /\ batch' = Append(batch, imagePaths[i + 1])
    /\ IF BatchFull(batch', i, Len(imagePaths), numThreads)
       THEN /\ pc' = "dispatch"
            /\ bpos' = 0
            /\ workers' = <<>>
            /\ i' = i
            /\ batches' = Append(batches, batch')
       ELSE /\ i' = i + 1
            /\ UNCHANGED <<pc, bpos, workers, batches>>
    /\ UNCHANGED <<removed, outState, outParent, outEntries, iterTodo, inState, inTree, imagePaths, numThreads,
                   jpos, threads, reports, fatal>>

\* line 188, 198: the loop condition fails, processImagesInDirectory returns
LoopEnd ==
    /\ pc = "loop"
    /\ ~(i < Len(imagePaths))
    /\ pc' = "done"
    /\ UNCHANGED <<removed, outState, outParent, outEntries, iterTodo, inState, inTree, imagePaths, numThreads, i,
                   batch, bpos, workers, jpos, threads, reports, fatal>>

----------------------------------------------------------------------------
(* processBatch *)

\* lines 133-150: one entry of the batch: fs::exists or fs::is_regular_file throws
\* because the status of the path cannot be read, a thread is started, or the
\* path is reported
DispatchStep ==
    /\ pc = "dispatch"
    /\ bpos < Len(batch)
    /\ LET imagePath == batch[bpos + 1]
       IN \E err \in BOOLEAN :
             IF err
             THEN Throw("dispatch") /\ UNCHANGED <<workers, threads, reports>>
             ELSE /\ IF IsRegularFile(imagePath)
                     THEN /\ workers' = Append(workers, imagePath)
                          /\ threads' = Append(threads,
                                               [path |-> imagePath, st |-> "spawned", at |-> i])
                          /\ UNCHANGED reports
                     ELSE /\ reports' = reports (+)
                                           SetToBag({[path |-> imagePath, kind |-> "invalid"]})
                          /\ UNCHANGED <<workers, threads>>
                  /\ UNCHANGED <<pc, fatal>>
    /\ bpos' = bpos + 1
    /\ UNCHANGED <<removed, outState, outParent, outEntries, iterTodo, inState, inTree, imagePaths,
                   numThreads, i, batch, jpos>>

\* line 150-153: every entry of the batch was looked at, the join loop starts
DispatchEnd ==
    /\ pc = "dispatch"
    /\ bpos = Len(batch)
    /\ pc' = "join"
    /\ jpos' = 0
    /\ UNCHANGED <<removed, outState, outParent, outEntries, iterTodo, inState, inTree, imagePaths, numThreads, i,
                   batch, bpos, workers, threads, reports, fatal>>

\* the state of the thread started for an image path
ThreadState(path) ==
    LET k == CHOOSE k \in 1..Len(threads) : threads[k].path = path
    IN threads[k].st

\* lines 153-156: worker.join() of the next worker returns
JoinStep ==
    /\ pc = "join"
    /\ jpos < Len(workers)
    /\ Joinable(ThreadState(workers[jpos + 1]))
    /\ jpos' = jpos + 1
    /\ UNCHANGED <<removed, pc, outState, outParent, outEntries, iterTodo, inState, inTree, imagePaths, numThreads,
                   i, batch, bpos, workers, threads, reports, fatal>>

\* lines 157, 195, 188: processBatch returns, batch.clear(), ++i
JoinEnd ==
    /\ pc = "join"
    /\ jpos = Len(workers)
    /\ workers' = <<>>
    /\ batch' = <<>>
    /\ i' = i + 1
    /\ pc' = "loop"
    /\ UNCHANGED <<removed, outState, outParent, outEntries, iterTodo, inState, inTree, imagePaths, numThreads,
                   bpos, jpos, threads, reports, fatal>>

----------------------------------------------------------------------------
(* worker threads *)

\* the threads of the process run until the process has ended: after an
\* uncaught exception they go on until abort() raises SIGABRT
Running == exitStatus = "running"

\* lines 139-143, 59: the lambda computes the output file and enters applyGaussFilter
WorkerEnter ==
    /\ Running
    /\ \E k \in 1..Len(threads) :
          /\ threads[k].st = "spawned"
          /\ threads' = [threads EXCEPT ![k].st = "transform"]
    /\ UNCHANGED <<removed, pc, outState, outParent, outEntries, iterTodo, inState, inTree, imagePaths, numThreads,
                   i, batch, bpos, workers, jpos, reports, fatal>>

\* lines 62-84: the transform succeeds, npp::saveImage writes the output file
WorkerSave ==
    /\ Running
    /\ \E k \in 1..Len(threads) :
          /\ threads[k].st = "transform"
          /\ threads' = [threads EXCEPT ![k].st = "saved"]
          /\ LET outputFile == OutputFile(OutputDir, threads[k].path)
             IN outEntries' = {e \in outEntries : e.name # outputFile} \cup
                                 {WrittenFile(outputFile)}
    /\ UNCHANGED <<removed, pc, outState, outParent, iterTodo, inState, inTree, imagePaths, numThreads,
                   i, batch, bpos, workers, jpos, reports, fatal>>

\* lines 85-92: "Finished" is printed and the thread function returns
WorkerFinish ==
    /\ Running
    /\ \E k \in 1..Len(threads) :
          /\ threads[k].st = "saved"
          /\ threads' = [threads EXCEPT ![k].st = "returned"]
          /\ reports' = reports (+)
                           SetToBag({[path |-> threads[k].path, kind |-> "finished"]})
    /\ UNCHANGED <<removed, pc, outState, outParent, outEntries, iterTodo, inState, inTree, imagePaths,
                   numThreads, i, batch, bpos, workers, jpos, fatal>>

\* lines 60-84, 93-100: the transform or saveImage throws; a handler reports it, or the exception
\* leaves the thread function and std::terminate ends the process
WorkerThrow ==
    /\ Running
    /\ \E k \in 1..Len(threads), exc \in Exceptions :
          /\ threads[k].st = "transform"
          /\ IF CaughtBy(exc) # "none"
             THEN /\ threads' = [threads EXCEPT ![k].st = "returned"]
                  /\ reports' = reports (+)
                                   SetToBag({[path |-> threads[k].path, kind |-> CaughtBy(exc)]})
                  /\ UNCHANGED pc
             ELSE /\ threads' = [threads EXCEPT ![k].st = "died"]
                  /\ pc' = "terminated"
                  /\ UNCHANGED reports
    /\ UNCHANGED <<removed, outState, outParent, outEntries, iterTodo, inState, inTree, imagePaths, numThreads,
                   i, batch, bpos, workers, jpos, fatal>>

Init == InitRun /\ PathIdle

\* lines 258-260: what main prints about the run once processImagesInDirectory
\* has returned: the set of summary lines [discovered, succeeded, failed]; main
\* prints nothing and keeps no counts
RunSummary == {}

\* lines 41, 243-258: printfNPPinfo returns what checkCudaCapabilities(1, 0)
\* found: main calls exit(EXIT_SUCCESS) before anything is done, or goes on to
\* processImagesInDirectory
DeviceCheck ==
    /\ pc = "main"
    /\ \E capable \in BOOLEAN :
          IF capable
          THEN pc' = "start" /\ UNCHANGED exitStatus
          ELSE pc' = "noDevice" /\ exitStatus' = "0"
    /\ UNCHANGED <<outState, outParent, outEntries, iterTodo, inState, inTree, imagePaths, numThreads, i,
                   batch, bpos, workers, jpos, threads, reports, fatal, removed, batches, run>>

\* lines 258-260: processImagesInDirectory has returned, main returns 0
MainReturn ==
    /\ pc = "done"
    /\ pc' = "exited"
    /\ exitStatus' = "0"
    /\ UNCHANGED <<outState, outParent, outEntries, iterTodo, inState, inTree, imagePaths, numThreads, i,
                   batch, bpos, workers, jpos, threads, reports, fatal, removed, batches, run>>

\* line 258: an exception left main or a thread function: std::terminate calls
\* abort, the process is killed by SIGABRT
Terminate ==
    /\ pc \in {"aborted", "terminated"}
    /\ exitStatus = "running"
    /\ exitStatus' = "SIGABRT"
    /\ UNCHANGED <<pc, outState, outParent, outEntries, iterTodo, inState, inTree, imagePaths, numThreads,
                   i, batch, bpos, workers, jpos, threads, reports, fatal, removed, batches, run>>

Next ==
    \/ (EnterCleanup /\ UNCHANGED pathVars /\ UNCHANGED <<batches, exitStatus, run, created>>)
    \/ (CreateDirectory /\ UNCHANGED pathVars /\ UNCHANGED <<batches, exitStatus, run, created>>)
    \/ (CleanupStep /\ UNCHANGED pathVars /\ UNCHANGED <<batches, exitStatus, run, created>>)
    \/ (CleanupEnd /\ UNCHANGED pathVars /\ UNCHANGED <<batches, exitStatus, run, created>>)
    \/ (DiscoverStep /\ UNCHANGED pathVars /\ UNCHANGED <<batches, exitStatus, run, created>>)
    \/ (DiscoverEnd /\ UNCHANGED pathVars /\ UNCHANGED <<batches, exitStatus, run, created>>)
    \/ (LoopStep /\ UNCHANGED pathVars /\ UNCHANGED procVars /\ UNCHANGED created)
    \/ (LoopEnd /\ UNCHANGED pathVars /\ UNCHANGED <<batches, exitStatus, run, created>>)
    \/ (DispatchStep /\ UNCHANGED pathVars /\ UNCHANGED <<batches, exitStatus, run, created>>)
    \/ (DispatchEnd /\ UNCHANGED pathVars /\ UNCHANGED <<batches, exitStatus, run, created>>)
    \/ (JoinStep /\ UNCHANGED pathVars /\ UNCHANGED <<batches, exitStatus, run, created>>)
    \/ (JoinEnd /\ UNCHANGED pathVars /\ UNCHANGED <<batches, exitStatus, run, created>>)
    \/ (WorkerEnter /\ UNCHANGED pathVars /\ UNCHANGED <<batches, exitStatus, run, created>>)
    \/ (WorkerFinish /\ UNCHANGED pathVars /\ UNCHANGED <<batches, exitStatus, run, created>>)
    \/ (WorkerThrow /\ UNCHANGED pathVars /\ UNCHANGED <<batches, exitStatus, run, created>>)
    \/ (WorkerSave /\ UNCHANGED pathVars /\ UNCHANGED <<batches, exitStatus, run, created>>)
    \/ (DeviceCheck /\ UNCHANGED pathVars /\ UNCHANGED created)
    \/ (MainReturn /\ UNCHANGED pathVars /\ UNCHANGED created)
    \/ (Terminate /\ UNCHANGED pathVars /\ UNCHANGED created)

Spec == Init /\ [][Next]_vars

\* the scheduler keeps running some thread that can take a step: every
\* filesystem call, every transform and every join of a finished thread returns
\* (the fairness of SpecLive)
InitLive ==
    /\ Init
    /\ outState = "dir" =>
          outEntries = {StaleFile(k) : k \in 1..MaxStale} \cup {StaleLink, OutSubdir, SubdirLink}

\* a run from a missing output directory, or from a fullest one (its cleanup
\* passes through every smaller set of entries left to visit)
SpecLive == InitLive /\ [][Next]_vars /\ WF_vars(Next)

\* lines 241-258: the program is started again on the same directories after a
\* completed execution; what the first execution left in the output directory
\* predates the second
Rerun ==
    /\ pc \in {"exited", "noDevice"}
    /\ run = 1
    /\ run' = 2
    /\ exitStatus' = "running"
    /\ pc' = "main"
    /\ outEntries' = {[e EXCEPT !.stale = TRUE] : e \in outEntries}
    /\ iterTodo' = {}
    /\ imagePaths' = <<>>
    /\ numThreads' = 0
    /\ i' = 0
    /\ batch' = <<>>
    /\ bpos' = 0
    /\ workers' = <<>>
    /\ jpos' = 0
    /\ threads' = <<>>
    /\ reports' = EmptyBag
    /\ fatal' = "none"
    /\ removed' = 0
    /\ batches' = <<>>
    /\ created' = {}
    /\ UNCHANGED <<outState, outParent, inState, inTree>>

NextTwice ==
    \/ Next
    \/ (Rerun /\ UNCHANGED pathVars)

\* two executions of the program in sequence
SpecTwice == Init /\ [][NextTwice]_vars

\* the positions of the main thread between its first filesystem call and the
\* return of processImagesInDirectory
DuringRun == {"cleanup", "discover", "loop", "dispatch", "join"}

\* the positions after the walk of lines 178-181 has ended
AfterWalk == {"loop", "dispatch", "join"}

\* the files that can appear below the input directory: a file inside d needs d
Creatable == {e \in InputUniverse \ inTree : e.kind = "file" /\ (e = FileDAB => DirD \in inTree)}

\* whether the open iterator reports a file created while it walks is
\* unspecified; it cannot report a file of a directory it has already left
MissedChoices(e) ==
    IF pc # "discover" THEN {FALSE}
    ELSE IF /\ e = FileDAB
            /\ DirD.path \in {imagePaths[k] : k \in 1..Len(imagePaths)}
            /\ imagePaths[Len(imagePaths)] # DirD.path
         THEN {TRUE}
         ELSE BOOLEAN

\* lines 171-197: while the run is in progress something (another process, or a
\* worker whose output lands below the input directory) creates a regular file
\* below the input directory
CreateInput ==
    /\ pc \in DuringRun
    /\ inState = "dir"
    /\ Cardinality(inTree) < MaxPaths
    /\ \E e \in Creatable : \E m \in MissedChoices(e) :
          /\ inTree' = inTree \cup {e}
          /\ created' = created \cup {[path |-> e.path, at |-> pc, missed |-> m]}
    /\ UNCHANGED <<pc, inState, outState, outParent, outEntries, iterTodo, imagePaths, numThreads, i, batch,
                   bpos, workers, jpos, threads, reports, fatal, removed, batches, exitStatus, run>>

NextGrow ==
    \/ Next
    \/ (CreateInput /\ UNCHANGED pathVars)

\* a run during which files appear below the input directory
SpecGrow == InitLive /\ [][NextGrow]_vars

----------------------------------------------------------------------------
(* The output path lambda of processBatch on its own: the inputs are drawn *)
(* from bounded sets of strings and the lambda is applied to them.         *)

\* the characters input paths and directory strings are built from
PathChars == {"a", ".", "/", "\\"}

StringsOfLen(lo, hi) == UNION {[1..n -> PathChars] : n \in lo..hi}

\* the paths a directory walk can yield: below some directory, and ending in a
\* file name, which is not empty, "." or ".."; a backslash is an ordinary
\* character of a file name
WalkPaths ==
    {p \in StringsOfLen(2, MaxPathLen) :
        /\ \E k \in 1..(Len(p) - 1) : p[k] = "/"
        /\ p[Len(p)] # "/"
        /\ ~(p[Len(p)] = "." /\ p[Len(p) - 1] = "/")
        /\ ~(Len(p) >= 3 /\ p[Len(p)] = "." /\ p[Len(p) - 1] = "." /\ p[Len(p) - 2] = "/")}

\* the strings the --output argument can be
OutputDirs == StringsOfLen(1, MaxDirLen)

\* the main thread does not run while the lambda is exercised alone
RunParked ==
    /\ pc = "path"
    /\ outState = "dir"
    /\ outParent = TRUE
    /\ outEntries = {}
    /\ iterTodo = {}
    /\ inState = "dir"
    /\ inTree = {}
    /\ imagePaths = <<>>
    /\ numThreads = 0
    /\ i = 0
    /\ batch = <<>>
    /\ bpos = 0
    /\ workers = <<>>
    /\ jpos = 0
    /\ threads = <<>>
    /\ reports = EmptyBag
    /\ fatal = "none"
    /\ removed = 0
    /\ batches = <<>>
    /\ exitStatus = "running"
    /\ run = 1
    /\ created = {}
    /\ created = {}

\* line 205: "../data/"
DefaultInputDir == <<".", ".", "/", "d", "a", "t", "a", "/">>

\* line 206: "../output/"
DefaultOutputDir == <<".", ".", "/", "o", "u", "t", "p", "u", "t", "/">>

\* lines 209-217, 219-227: the argument's value when the flag is given, the default otherwise
DirFromArg(arg, default) == IF arg.given THEN arg.value ELSE default

InitPath ==
    /\ RunParked
    /\ argInput \in {NotGiven, Given(<<"i">>)}
    /\ argOutput \in {NotGiven} \cup {Given(d) : d \in OutputDirs}
    /\ inputDir = <<>>
    /\ pDir = <<>>
    /\ pIn \in WalkPaths
    /\ pIn2 = <<>>
    /\ pOut = <<>>
    /\ pOut2 = <<>>
    /\ ppc = "args"

\* lines 202-231, 251: parseInputOutputDirs
ParseArgs ==
    /\ ppc = "args"
    /\ inputDir' = DirFromArg(argInput, DefaultInputDir)
    /\ pDir' = DirFromArg(argOutput, DefaultOutputDir)
    /\ ppc' = "first"
    /\ UNCHANGED <<pIn, pIn2, pOut, pOut2, argInput, argOutput>>

\* lines 139-142 for the first image path
ResolveFirst ==
    /\ ppc = "first"
    /\ pOut' = OutputFile(pDir, pIn)
    /\ ppc' = "pick"
    /\ UNCHANGED <<pIn, pIn2, pDir, pOut2, argInput, argOutput, inputDir>>

\* another image path of the same batch
PickSecond ==
    /\ ppc = "pick"
    /\ pIn2' \in WalkPaths \ {pIn}
    /\ ppc' = "second"
    /\ UNCHANGED <<pIn, pDir, pOut, pOut2, argInput, argOutput, inputDir>>

\* lines 139-142 for the second image path
ResolveSecond ==
    /\ ppc = "second"
    /\ pOut2' = OutputFile(pDir, pIn2)
    /\ ppc' = "resolved"
    /\ UNCHANGED <<pIn, pIn2, pDir, pOut, argInput, argOutput, inputDir>>

NextPath ==
    \/ (ParseArgs /\ UNCHANGED runVars)
    \/ (ResolveFirst /\ UNCHANGED runVars)
    \/ (PickSecond /\ UNCHANGED runVars)
    \/ (ResolveSecond /\ UNCHANGED runVars)

SpecPath == InitPath /\ [][NextPath]_vars

----------------------------------------------------------------------------
(* Vocabulary of the properties *)

\* the paths of a sequence
Range(seq) == {seq[k] : k \in 1..Len(seq)}

\* number of lines reported about an image path, of all kinds
ReportsOf(path) ==
    LET about == {r \in BagToSet(reports) : r.path = path}
    IN IF about = {} THEN 0
       ELSE BagCardinality([r \in about |-> CopiesIn(r, reports)])

\* the threads that were started and have not finished
Unfinished == {k \in 1..Len(threads) : threads[k].st \in {"spawned", "transform", "saved"}}

\* the threads inside applyGaussFilter
InTransform == {k \in 1..Len(threads) : threads[k].st \in {"transform", "saved"}}

\* a task was dispatched: a thread was started or a path was reported
Dispatched == threads # <<>> \/ reports # EmptyBag

\* the portion of a path after its last '/' or '\'
RECURSIVE BaseName(_)
BaseName(p) ==
    IF p = <<>> \/ p[Len(p)] \in {"/", "\\"} THEN <<>>
    ELSE BaseName(SubSeq(p, 1, Len(p) - 1)) \o <<p[Len(p)]>>

\* a name with the portion from its last '.' removed; a name without '.' is kept
RECURSIVE StripExtension(_)
StripExtension(b) ==
    IF \A k \in 1..Len(b) : b[k] # "." THEN b
    ELSE IF b[Len(b)] = "." THEN SubSeq(b, 1, Len(b) - 1)
    ELSE StripExtension(SubSeq(b, 1, Len(b) - 1))

\* the output path the contract of the resolver describes
ExpectedOutput(outputDir, imagePath) ==
    outputDir \o <<"/">> \o StripExtension(BaseName(imagePath)) \o Suffix

\* the discovered paths have pairwise different base names
DistinctBaseNames ==
    \A k, l \in 1..Len(imagePaths) :
        k # l => BaseName(imagePaths[k]) # BaseName(imagePaths[l])

----------------------------------------------------------------------------
(* Properties *)

\* C1: when processImagesInDirectory has returned, every discovered path has
\* exactly one report (finished, error, unknown error or invalid path), so the
\* number of reports equals the number of discovered paths; at no time has a
\* path more than one report or more than one thread.
C1_OneOutcomePerPath ==
    /\ \A path \in Range(imagePaths) : ReportsOf(path) <= 1
    /\ \A k, l \in 1..Len(threads) : threads[k].path = threads[l].path => k = l
    /\ pc = "done" =>
          /\ \A path \in Range(imagePaths) : ReportsOf(path) = 1
          /\ BagCardinality(reports) = Len(imagePaths)

\* C1 witness: a finished run over three discovered paths with one report each
C1_Witness ==
    /\ pc = "done"
    /\ Len(imagePaths) = 3
    /\ BagCardinality(reports) = 3
    /\ \E r \in BagToSet(reports) : r.kind = "finished"
    /\ \E r \in BagToSet(reports) : r.kind = "invalid"

\* C2 (as claimed): at every instant the number of applyGaussFilter invocations
\* in flight is at most numThreads, whatever hardware_concurrency() returned.
C2_InFlightAtMostNumThreads ==
    pc \in {"loop", "dispatch", "join", "done"} => Cardinality(InTransform) <= numThreads

\* C3: a throwing transform yields exactly one failure report for its task, the
\* exception never leaves the worker thread (no thread dies, the process is not
\* terminated), and when the run has returned every regular file that was
\* discovered had its thread started and finished, failures or not.
C3_FailureIsolated ==
    /\ pc # "terminated"
    /\ \A k \in 1..Len(threads) : threads[k].st # "died"
    /\ \A r \in BagToSet(reports) :
          r.kind \in {"error", "unknown"} =>
             /\ CopiesIn(r, reports) = 1
             /\ ReportsOf(r.path) = 1
    /\ pc = "done" =>
          \A path \in Range(imagePaths) :
             IsRegularFile(path) =>
                \E k \in 1..Len(threads) : threads[k].path = path /\ threads[k].st = "returned"

\* C3 witness: the first task of a batch of two failed with a non-std exception,
\* its sibling and the task of the next batch finished
C3_Witness ==
    /\ pc = "done"
    /\ numThreads = 2
    /\ imagePaths = <<FileAB.path, FileAC.path, FileCB.path>>
    /\ reports = SetToBag({[path |-> FileAB.path, kind |-> "unknown"],
                           [path |-> FileAC.path, kind |-> "finished"],
                           [path |-> FileCB.path, kind |-> "finished"]})

\* C4: when processBatch has returned (the main thread is back in the batching
\* loop) and when processImagesInDirectory has returned, no started thread is
\* unfinished.
C4_ReturnAfterJoin ==
    pc \in {"loop", "done"} => Unfinished = {}

\* C4 witness: the run returned after two batches, three threads were joined
C4_Witness ==
    /\ pc = "done"
    /\ numThreads = 2
    /\ Len(threads) = 3
    /\ Unfinished = {}

\* C5 (as claimed): when the discovered paths have pairwise different base names,
\* no two threads that are inside applyGaussFilter at the same time have the same
\* output file.
C5_DisjointOutputsInFlight ==
    DistinctBaseNames =>
       \A k, l \in InTransform :
          k # l => OutputFile(OutputDir, threads[k].path) # OutputFile(OutputDir, threads[l].path)

\* C6 (as claimed): two input paths with different base names get different
\* output paths for the same output directory.
C6_DifferentBaseNamesDifferentOutputs ==
    (ppc = "resolved" /\ BaseName(pIn) # BaseName(pIn2)) => pOut # pOut2

\* C7 (as claimed): the computed output path is the output directory, "/", the
\* base name of the input without the portion from its last '.', and
\* "_gauss_filtered.pgm".
C7_OutputPathAsSpecified ==
    ppc \in {"pick", "second", "resolved"} => pOut = ExpectedOutput(pDir, pIn)

\* C8: when the directory lifecycle step has completed without error (the main
\* thread is about to enumerate the input directory), the output directory exists
\* and none of its immediate entries is a regular file.
C8_OutputDirClean ==
    pc = "discover" =>
       /\ outState = "dir"
       /\ \A e \in outEntries : e.kind # "file"

\* C8 witness: the lifecycle step completed after deleting three stale files
C8_Witness ==
    /\ pc = "discover"
    /\ removed = 3
    /\ outState = "dir"

\* C9: whenever a task has been dispatched, the cleanup or creation step is
\* complete (the main thread is past it and no stale regular file is left), and
\* from then on no file is deleted by the cleanup.
C9_CleanupBeforeDispatch ==
    /\ [](Dispatched =>
            /\ pc \notin {"main", "start", "cleanup"}
            /\ outState = "dir"
            /\ \A e \in outEntries : ~(e.kind = "file" /\ e.stale))
    /\ [][Dispatched => removed' = removed]_vars

\* C9 witness: a thread is running after a cleanup that deleted stale files
C9_Witness ==
    /\ removed >= 2
    /\ InTransform # {}

\* C10: once a filesystem_error was thrown while cleaning, creating or
\* enumerating, the run is aborted and no thread was started and no path
\* reported.
C10_FatalBeforeDispatch ==
    fatal \in {"start", "cleanup", "discover"} =>
       /\ pc = "aborted"
       /\ threads = <<>>
       /\ reports = EmptyBag

\* C10 witness: the enumeration failed after a cleanup that deleted a file and
\* after one path was collected
C10_Witness ==
    /\ fatal = "discover"
    /\ pc = "aborted"
    /\ removed >= 1
    /\ imagePaths # <<>>

\* the paths whose transform failed: an error or unknown error was reported
FailedTasks == {r.path : r \in {x \in BagToSet(reports) : x.kind \in {"error", "unknown"}}}

\* the paths whose transform succeeded
FinishedTasks == {r.path : r \in {x \in BagToSet(reports) : x.kind = "finished"}}

\* C11 (as claimed): the exit status of the process tells the three endings
\* apart: a run that completed with a failed task ends neither with the status
\* of a run whose tasks all succeeded ("0") nor with that of a fatal abort
\* ("SIGABRT"), and a fatal abort does not end with "0".
C11_ExitStatusDistinguishes ==
    /\ (exitStatus # "running" /\ FailedTasks # {}) => exitStatus \notin {"0", "SIGABRT"}
    /\ (exitStatus # "running" /\ fatal # "none") => exitStatus # "0"

\* C12 (as claimed): when exactly one discovered file failed and all others
\* succeeded, the finished run has a summary with N discovered, N-1 succeeded
\* and 1 failed.
C12_SummaryCountsOneFailure ==
    (/\ pc = "exited"
     /\ Cardinality(FailedTasks) = 1
     /\ Cardinality(FinishedTasks) = Len(imagePaths) - 1)
    => \E line \in RunSummary :
          /\ line.discovered = Len(imagePaths)
          /\ line.succeeded = Len(imagePaths) - 1
          /\ line.failed = 1

\* the names of the regular files in the output directory
OutputFiles == {e.name : e \in {x \in outEntries : x.kind = "file"}}

\* C13: in the second of two executions on the same directories, once a task is
\* dispatched no regular file from before that execution is left in the output
\* directory, and when the second execution has returned the regular files of
\* the output directory are exactly the files its workers saved.
C13_SecondRunOnlyOwnFiles ==
    run = 2 =>
       /\ Dispatched => \A e \in outEntries : ~(e.kind = "file" /\ e.stale)
       /\ pc \in {"done", "exited"} =>
             OutputFiles = {OutputFile(OutputDir, path) : path \in FinishedTasks}

\* C13 witness: the second execution returned after deleting two files of the
\* first and saving one of its own, another of its tasks having failed
C13_Witness ==
    /\ run = 2
    /\ pc = "done"
    /\ removed = 2
    /\ Cardinality(OutputFiles) = 1
    /\ FailedTasks # {}

\* C14 (as claimed): when the output path does not exist, the lifecycle step can
\* create it whether or not its parent directory exists: the creation step is
\* able to end with the directory in place.
C14_CreatesMissingParents ==
    (pc = "start" /\ outState = "absent") =>
       ENABLED (CreateDirectory /\ outState' = "dir" /\ pc' = "discover")

\* C15 (as claimed): a step of cleanupOutputDirectory removes nothing but
\* regular files that are immediate entries of the output directory: every
\* subdirectory stays an entry, with the files inside it unchanged, and nothing
\* is added.
C15_RemovesOnlyRegularFiles ==
    [][pc = "cleanup" =>
          /\ outEntries' \subseteq outEntries
          /\ \A e \in outEntries : e.kind = "dir" => e \in outEntries'
          /\ \A e \in outEntries \ outEntries' : e.kind = "file"]_vars

\* C15 (amended): a step of cleanupOutputDirectory removes nothing but immediate
\* entries of the output directory that are regular files or symbolic links to
\* a regular file (the link, not its target); every subdirectory stays an
\* entry, with the files inside it unchanged, every link to a directory stays,
\* and nothing is added.
C15_CleanupKeepsSubdirectories ==
    [][pc = "cleanup" =>
          /\ outEntries' \subseteq outEntries
          /\ \A e \in outEntries :
                (e.kind = "dir" \/ (e.kind = "link" /\ e.target = "dir")) => e \in outEntries'
          /\ \A e \in outEntries \ outEntries' :
                e.kind = "file" \/ (e.kind = "link" /\ e.target = "file")]_vars

\* C15 witness: the cleanup has ended after deleting every stale regular file
\* and the link to a regular file; the subdirectory is still there with its
\* file, and so is the link to it
C15_Witness ==
    /\ pc = "discover"
    /\ removed = MaxStale + 1
    /\ outEntries = {OutSubdir, SubdirLink}
    /\ \E e \in outEntries : e.kind = "dir" /\ e.files # {}

\* C16 (as claimed): when every filesystem operation and every transform ends
\* and the threads keep being scheduled, a started run of
\* processImagesInDirectory eventually returns.
C16_AlwaysReturns ==
    (pc = "start") ~> (pc = "done")

\* C16 (amended): when every filesystem operation and every transform ends and
\* the threads keep being scheduled, a started run of processImagesInDirectory
\* eventually returns (every batch dispatched and joined), or a filesystem
\* operation has thrown and the run is aborted.
C16_RunReturns ==
    (pc = "start") ~> (pc = "done" \/ fatal # "none")

\* C16 witness: the run returned after three batches of one thread each
C16_Witness ==
    /\ pc = "done"
    /\ numThreads = 1
    /\ Len(batches) = 3
    /\ Len(threads) = 3
    /\ Unfinished = {}

\* README, "Default Directories": data/
DocumentedInputDir == <<"d", "a", "t", "a", "/">>

\* README, "Default Directories": output/
DocumentedOutputDir == <<"o", "u", "t", "p", "u", "t", "/">>

\* C17 (as claimed): when neither --input nor --output is given, the run uses
\* the documented defaults, input directory data/ and output directory output/.
C17_DocumentedDefaults ==
    (ppc \notin {"idle", "args"} /\ ~argInput.given /\ ~argOutput.given) =>
       /\ inputDir = DocumentedInputDir
       /\ pDir = DocumentedOutputDir

\* C18: a worker of a later batch exists only when every worker of every
\* earlier batch has finished: tasks of different batches never run at the
\* same time.
C18_BatchesDoNotOverlap ==
    \A k, l \in 1..Len(threads) :
       threads[k].at < threads[l].at => threads[k].st = "returned"

C18_Witness ==
    \E k, l \in 1..Len(threads) :
       /\ threads[k].at < threads[l].at
       /\ threads[l].st = "transform"

\* the batches passed to processBatch so far, one after the other
RECURSIVE Flatten(_)
Flatten(bs) == IF bs = <<>> THEN <<>> ELSE Head(bs) \o Flatten(Tail(bs))

\* C19: with numThreads >= 1 the batches passed to processBatch are consecutive
\* slices of the discovered sequence, in order, that add up to the whole
\* sequence when the run returns; no batch is empty, every batch but the last
\* of the run has exactly numThreads entries, and nothing is dispatched when
\* nothing was discovered.
C19_BatchesPartitionPaths ==
    numThreads >= 1 =>
       /\ Len(Flatten(batches)) <= Len(imagePaths)
       /\ Flatten(batches) = SubSeq(imagePaths, 1, Len(Flatten(batches)))
       /\ \A k \in 1..Len(batches) :
             /\ batches[k] # <<>>
             /\ Len(batches[k]) <= numThreads
             /\ (Len(batches[k]) < numThreads) =>
                   /\ k = Len(batches)
                   /\ Len(Flatten(batches)) = Len(imagePaths)
       /\ (pc = "done") => (Flatten(batches) = imagePaths)
       /\ (imagePaths = <<>>) => (batches = <<>>)

C19_Witness ==
    /\ pc = "done"
    /\ numThreads = 2
    /\ Len(imagePaths) = 3
    /\ Len(batches) = 2
    /\ Len(batches[2]) = 1

\* the discovered paths that are not regular files of the input tree
NotRegular == {e.path : e \in {f \in inTree : f.kind # "file"}}

\* C20 (as claimed): a thread is started only for a path that is a regular file
\* when processBatch checks it; a discovered entry that is not a regular file
\* is reported as invalid and gets no thread, and the check of such an entry
\* never stops the run: every other entry of its batch and of the later
\* batches is still dispatched.
C20_OnlyRegularFilesTransformed ==
    /\ \A k \in 1..Len(threads) :
          \E e \in inTree : e.path = threads[k].path /\ e.kind = "file"
    /\ \A r \in BagToSet(reports) :
          (r.kind = "invalid") <=> (r.path \in NotRegular)
    /\ (fatal = "dispatch") => (batch[bpos] \notin NotRegular)
    /\ (pc = "done") =>
          \A n \in 1..Len(imagePaths) :
             IF imagePaths[n] \in NotRegular
             THEN CopiesIn([path |-> imagePaths[n], kind |-> "invalid"], reports) = 1
             ELSE \E k \in 1..Len(threads) : threads[k].path = imagePaths[n]

\* the files created below the input directory after the walk had ended
LateFiles == {c.path : c \in {d \in created : d.at \in AfterWalk}}

\* the files the walk was not shown
MissedFiles == {c.path : c \in {d \in created : d.missed}}

\* C21 (as claimed): a file created below the input directory during the run
\* is never dispatched as a task of that run.
C21_CreatedNeverDispatched ==
    \A c \in created :
       /\ \A k \in 1..Len(threads) : threads[k].path # c.path
       /\ ReportsOf(c.path) = 0

\* C21 (amended): the task list is complete when the walk ends and does not
\* change afterwards: once the batching loop has begun the list holds exactly
\* the entries the walk was shown, and a file created below the input
\* directory after the walk has ended is never in the list, never given a
\* thread and never reported.
C21_LateFilesNeverDispatched ==
    /\ (pc \in AfterWalk \cup {"done", "exited"}) =>
          Range(imagePaths) = {e.path : e \in inTree} \ (LateFiles \cup MissedFiles)
    /\ \A p \in LateFiles :
          /\ p \notin Range(imagePaths)
          /\ \A k \in 1..Len(threads) : threads[k].path # p
          /\ ReportsOf(p) = 0

C21_Witness ==
    /\ pc = "done"
    /\ \E c \in created :
          /\ c.at \in {"dispatch", "join"}
          /\ c.path \notin Range(imagePaths)
          /\ [path |-> c.path, kind |-> "file"] \in inTree
    /\ Len(batches) = 2
    /\ \A k \in 1..Len(threads) : threads[k].st = "returned"
    /\ Len(threads) = 2

====
